---- MODULE Spec2Model ----
(***************************************************************************)
(* Model of the stealth capture-transform-replace pipeline of the          *)
(* stealth-ai-tool extension: runStealthAction (the execution gate) and    *)
(* runStealthActionInternal (config load, selection acquisition through    *)
(* the clipboard marker, model call, replacement, notifications).          *)
(*                                                                         *)
(* JavaScript runs each handler to completion between awaits, and execSync *)
(* blocks the event loop, so one action of the model is one synchronous    *)
(* segment of the code, from one await to the next.                        *)
(*                                                                         *)
(* Texts are sequences of tokens; " " and "\n" are the whitespace tokens.  *)
(***************************************************************************)
EXTENDS Integers, Sequences, FiniteSets, TLC

\* ---------------------------------------------------------------- bounds
MaxTriggers == 3
TickMs == 1500
EpochStart == 5000
MaxTicks == 2

\* ------------------------------------------------------ program constants
DEBOUNCE_MS == 3000

MaxTime == EpochStart + MaxTicks * TickMs

\* ------------------------------------------------------------------ texts
WS == {" ", "\n"}
\* What the foreground application may hold as selection or current line:
\* nothing, blanks only, plain text, text with blanks at both ends.
Texts == {<<>>, <<" ">>, <<"a">>, <<" ", "a", " ">>}
ResultTexts == {<<>>, <<" ">>, <<"r">>, <<"r", "\n">>}
UserClipboard == <<"o">>

RECURSIVE TrimStart(_)
TrimStart(s) ==
    IF s # <<>> /\ Head(s) \in WS THEN TrimStart(Tail(s)) ELSE s

RECURSIVE TrimEnd(_)
TrimEnd(s) ==
    IF s # <<>> /\ s[Len(s)] \in WS THEN TrimEnd(SubSeq(s, 1, Len(s) - 1)) ELSE s

\* String.prototype.trim
Trim(s) == TrimEnd(TrimStart(s))

\* `__NO_SELECTION_${Date.now()}__`
Marker(t) == <<"__NO_SELECTION_", ToString(t), "__">>

\* ----------------------------------------------------------- configuration
ActionIds == {"action-1", "action-9"}

DEFAULT_CONFIGS ==
    [a \in {"action-1"} |-> [title |-> <<"Fix Grammar">>, prompt |-> <<"Fix all typos">>]]

PrefsStates ==
    { [title |-> <<>>, prompt |-> <<>>],
      [title |-> <<"PrefT">>, prompt |-> <<"PrefP">>] }

\* The "action-configs" item of LocalStorage: absent, not parseable, or a map
\* from action identifiers to records holding some of the fields.
StorageStates ==
    { [kind |-> "absent", map |-> <<>>],
      [kind |-> "corrupt", map |-> <<>>],
      [kind |-> "map", map |-> [a \in {"action-1"} |-> [prompt |-> <<"SavedP">>]]],
      [kind |-> "map", map |-> [a \in {"action-9"} |->
                                   [title |-> <<"SavedT">>, prompt |-> <<"SavedP">>]]] }

\* a || b || c on strings: the first non-empty one
Or3(a, b, c) == IF a # <<>> THEN a ELSE IF b # <<>> THEN b ELSE c

BaseConfig(p, actionId) ==
    [title |-> Or3(p.title,
                   IF actionId \in DOMAIN DEFAULT_CONFIGS
                      THEN DEFAULT_CONFIGS[actionId].title ELSE <<>>,
                   <<actionId>>),
     prompt |-> Or3(p.prompt,
                    IF actionId \in DOMAIN DEFAULT_CONFIGS
                       THEN DEFAULT_CONFIGS[actionId].prompt ELSE <<>>,
                    <<>>)]

Spread_Replace(cfg, over) ==
    [f \in {"title", "prompt"} |-> IF f \in DOMAIN over THEN over[f] ELSE <<>>]

\* { ...currentConfig, ...configs[actionId] }
Spread(cfg, over) ==
    [f \in {"title", "prompt"} |-> IF f \in DOMAIN over THEN over[f] ELSE cfg[f]]

MergeSaved_ResetOnError(cfg, st, actionId, readOk) ==
    IF readOk /\ st.kind = "map" /\ actionId \in DOMAIN st.map
       THEN Spread(cfg, st.map[actionId])
       ELSE IF readOk /\ st.kind # "corrupt" THEN cfg
       ELSE [title |-> <<actionId>>, prompt |-> <<>>]

\* lines 97-107: getItem and JSON.parse inside try; the catch block logs
MergeSaved(cfg, st, actionId, readOk) ==
    IF readOk /\ st.kind = "map" /\ actionId \in DOMAIN st.map
       THEN Spread(cfg, st.map[actionId])
       ELSE cfg

\* ------------------------------------------------------------------- gate
GateAdmits_NoLock(running, last, t) == ~(t - last < DEBOUNCE_MS)

GateAdmits_NoDebounce(running, last, t) == ~running

GateAdmits_OffByOne(running, last, t) == ~running /\ ~(t - last <= DEBOUNCE_MS)

\* lines 61-72: the two early returns of runStealthAction
GateAdmits(running, last, t) == ~running /\ ~(t - last < DEBOUNCE_MS)

GateEnter_StampAlways(admit, running, last, t) ==
    IF admit THEN [running |-> TRUE, last |-> t] ELSE [running |-> running, last |-> t]

\* lines 74-75, and the state a rejected trigger leaves
GateEnter(admit, running, last, t) ==
    IF admit THEN [running |-> TRUE, last |-> t] ELSE [running |-> running, last |-> last]

GateExit_NotOnThrow(running, threw) == IF threw THEN running ELSE FALSE

\* lines 79-80: the finally block
GateExit(running, threw) == FALSE

\* isRunning, lastRunTime: the module-level lock of lines 50-51
\* now: Date.now();  clipboard: the system clipboard;  tempFiles: the
\* raycast-ai-*.txt files present in tmpdir
\* runs: the invocations of runStealthAction, numbered in trigger order
\* nTriggers, lastTrigger, lastAdmitAt: history of the triggers (how many
\* fired, when the latest fired and whether the gate admitted it, when the
\* latest admitted one fired)
\* sa: the mounted SmartAction component (its React state, the position of
\* its init() effect) together with the preferences and the LocalStorage
\* item it was launched with
VARIABLES isRunning, lastRunTime, now, clipboard, tempFiles, runs,
          nTriggers, lastTrigger, lastAdmitAt, sa

triggers == <<nTriggers, lastTrigger, lastAdmitAt>>

pipeline == <<isRunning, lastRunTime, now, clipboard, tempFiles, runs, triggers>>

vars == <<pipeline, sa>>

RunIds == 1..MaxTriggers

NoRun ==
    [pc |-> "none", actionId |-> "", forceEditor |-> FALSE,
     config |-> [title |-> <<>>, prompt |-> <<>>],
     marker |-> <<>>, hasRealSelection |-> FALSE, selectedText |-> <<>>,
     reads |-> 0, sawMarker |-> FALSE,
     fallbackAttempts |-> 0, keystrokes |-> 0, failedOps |-> {},
     modelCalls |-> 0, prompt |-> <<>>, pastes |-> 0,
     result |-> [kind |-> "none", txt |-> <<>>],
     toast |-> "none", editAction |-> FALSE, unlinkFailed |-> FALSE,
     threw |-> FALSE]

\* no SmartAction component is mounted
NoComponent ==
    [pc |-> "unmounted", actionId |-> "", forceEditor |-> FALSE,
     prefs |-> [title |-> <<>>, prompt |-> <<>>],
     storage |-> [kind |-> "absent", map |-> <<>>],
     loadFailed |-> FALSE,
     configSet |-> FALSE, config |-> [title |-> <<>>, prompt |-> <<>>],
     showEditor |-> FALSE, isLoading |-> FALSE,
     selection |-> "none", selectedText |-> <<>>,
     windowClosed |-> FALSE, aiCalls |-> 0, prompt |-> <<>>,
     result |-> [kind |-> "none", txt |-> <<>>],
     pastes |-> 0, pasted |-> <<>>,
     toast |-> "none", editAction |-> FALSE,
     poppedToRoot |-> FALSE, threw |-> FALSE]

Init ==
    /\ isRunning = FALSE
    /\ lastRunTime = 0
    /\ now = EpochStart
    /\ clipboard = UserClipboard
    /\ tempFiles = {}
    /\ nTriggers = 0
    /\ lastTrigger = [at |-> 0, admitted |-> FALSE]
    /\ lastAdmitAt = 0
    /\ runs = [k \in RunIds |-> NoRun]
    /\ sa = NoComponent

\* Time passes. A tick is longer than the 200 ms settle waits of lines 145
\* and 172, so a settle timer may fire between any two ticks.
Tick ==
    /\ now + TickMs <= MaxTime
    /\ now' = now + TickMs
    /\ UNCHANGED <<isRunning, lastRunTime, clipboard, tempFiles, triggers, runs, sa>>

\* lines 90-95 and the call of line 98: what an admitted invocation holds
\* when it suspends at the first await
StartRun(a, f, prefs) ==
    [NoRun EXCEPT !.pc = "loadConfig", !.actionId = a, !.forceEditor = f,
                  !.config = BaseConfig(prefs, a)]

\* runStealthAction(a, f) up to the first await (LocalStorage.getItem);
\* prefs is what getPreferenceValues returns to an admitted invocation.
Trigger ==
    /\ nTriggers < MaxTriggers
    /\ LET k == nTriggers + 1
           admit == GateAdmits(isRunning, lastRunTime, now)
           g == GateEnter(admit, isRunning, lastRunTime, now)
       IN /\ nTriggers' = k
          /\ lastTrigger' = [at |-> now, admitted |-> admit]
          /\ lastAdmitAt' = IF admit THEN now ELSE lastAdmitAt
          /\ isRunning' = g.running
          /\ lastRunTime' = g.last
          /\ IF admit
                THEN \E a \in ActionIds, f \in BOOLEAN, prefs \in PrefsStates :
                        runs' = [runs EXCEPT ![k] = StartRun(a, f, prefs)]
                ELSE runs' = runs
    /\ UNCHANGED <<now, clipboard, tempFiles, sa>>

\* ------------------------------------------------- selection acquisition
\* line 130: printf marker | pbcopy, its failure caught at line 132
MarkerWrite(clip, marker, ok) == IF ok THEN marker ELSE clip

\* The frontmost application handling Cmd+C: a non-empty selection replaces
\* the clipboard, unless the application is too slow for the settle wait.
AppCopy(clip, sel, copied) == IF sel # <<>> /\ copied THEN sel ELSE clip

FirstReadIsNoSelection_Never(content, marker) == FALSE

\* line 155
FirstReadIsNoSelection(content, marker) == content = marker

\* line 180
FallbackAccepts(content, marker) == content # marker /\ Len(Trim(content)) > 0

NeedsEditor_ForceOnly(force, hasReal, text) == force

\* lines 202-207
NeedsEditor(force, hasReal, text) ==
    force \/ ~hasReal \/ text = <<>> \/ Len(Trim(text)) = 0

Capture_Trimmed(content) == Trim(content)

\* lines 183 and 191: selectedText = clipboardAfter
Capture(content) == content

\* The run reaches line 202 and awaits one of the two showToast calls. The
\* no-selection branch reads neither config nor selectedText again.
AfterAcquire(r) ==
    IF NeedsEditor(r.forceEditor, r.hasRealSelection, r.selectedText)
       THEN [r EXCEPT !.pc = "noSelToast",
                      !.config = NoRun.config,
                      !.selectedText = <<>>]
       ELSE [r EXCEPT !.pc = "procToast"]

\* lines 98-145: LocalStorage.getItem settles; config merge, marker write,
\* first Cmd+C, then the wait of the first settle timer (or line 202).
\* The frontmost-application query of lines 115-125 changes nothing, its
\* failure is caught.
ConfigLoaded(k) ==
    /\ runs[k].pc = "loadConfig"
    /\ \E storage \in StorageStates, readOk \in BOOLEAN, writeOk \in BOOLEAN,
          keyOk \in BOOLEAN, copied \in BOOLEAN, sel \in Texts :
         LET r0 == runs[k]
             m == Marker(now)
             c1 == MarkerWrite(clipboard, m, writeOk)
             r1 == [r0 EXCEPT
                      !.config = MergeSaved(r0.config, storage, r0.actionId, readOk),
                      !.marker = m,
                      !.failedOps = IF writeOk THEN {} ELSE {"markerWrite"}]
         IN IF r0.forceEditor
               THEN /\ keyOk /\ copied /\ sel = <<>>
                    /\ clipboard' = c1
                    /\ runs' = [runs EXCEPT ![k] = AfterAcquire(r1)]
               ELSE IF keyOk
                  THEN /\ clipboard' = AppCopy(c1, sel, copied)
                       /\ runs' = [runs EXCEPT ![k] =
                                     [r1 EXCEPT !.keystrokes = @ + 1,
                                                !.pc = "settle1"]]
                  ELSE /\ copied /\ sel = <<>>
                       /\ clipboard' = c1
                       /\ runs' = [runs EXCEPT ![k] =
                                     AfterAcquire([r1 EXCEPT
                                        !.hasRealSelection = FALSE,
                                        !.failedOps = @ \cup {"copyKey"}])]
    /\ UNCHANGED <<isRunning, lastRunTime, now, tempFiles, triggers, sa>>

\* lines 148-195 after the first settle wait: pbpaste, then either the
\* line fallback and the second settle wait, or the selection is taken.
\* line is what the fallback copies: <<>> for an empty line, and for an
\* application that has not copied when the second wait ends.
SettleRead1(k) ==
    /\ runs[k].pc = "settle1"
    /\ \E readOk \in BOOLEAN, fbOk \in BOOLEAN, line \in Texts :
         LET r0 == runs[k] IN
         IF ~readOk
            THEN /\ fbOk /\ line = <<>>
                 /\ clipboard' = clipboard
                 /\ runs' = [runs EXCEPT ![k] =
                               AfterAcquire([r0 EXCEPT !.failedOps = @ \cup {"read1"}])]
            ELSE LET r1 == [r0 EXCEPT !.reads = @ + 1,
                                      !.sawMarker = (clipboard = r0.marker)]
                 IN IF FirstReadIsNoSelection(clipboard, r0.marker)
                       THEN IF fbOk
                               THEN /\ clipboard' = AppCopy(clipboard, line, TRUE)
                                    /\ runs' = [runs EXCEPT ![k] =
                                          [r1 EXCEPT !.fallbackAttempts = @ + 1,
                                                     !.keystrokes = @ + 3,
                                                     !.pc = "settle2"]]
                               ELSE /\ line = <<>>
                                    /\ clipboard' = clipboard
                                    /\ runs' = [runs EXCEPT ![k] =
                                          AfterAcquire([r1 EXCEPT
                                             !.fallbackAttempts = @ + 1,
                                             !.failedOps = @ \cup {"fallbackKeys"}])]
                       ELSE /\ fbOk /\ line = <<>>
                            /\ clipboard' = clipboard
                            /\ runs' = [runs EXCEPT ![k] =
                                  AfterAcquire([r1 EXCEPT
                                     !.hasRealSelection = TRUE,
                                     !.selectedText = Capture(clipboard)])]
    /\ UNCHANGED <<isRunning, lastRunTime, now, tempFiles, triggers, sa>>

\* lines 175-195 after the second settle wait
SettleRead2(k) ==
    /\ runs[k].pc = "settle2"
    /\ \E readOk \in BOOLEAN :
         LET r0 == runs[k] IN
         IF ~readOk
            THEN runs' = [runs EXCEPT ![k] =
                            AfterAcquire([r0 EXCEPT !.failedOps = @ \cup {"read2"}])]
            ELSE LET r1 == [r0 EXCEPT !.reads = @ + 1]
                 IN IF FallbackAccepts(clipboard, r0.marker)
                       THEN runs' = [runs EXCEPT ![k] =
                               AfterAcquire([r1 EXCEPT
                                  !.hasRealSelection = TRUE,
                                  !.selectedText = Capture(clipboard)])]
                       ELSE runs' = [runs EXCEPT ![k] =
                               AfterAcquire([r1 EXCEPT !.hasRealSelection = FALSE])]
    /\ UNCHANGED <<isRunning, lastRunTime, now, clipboard, tempFiles, triggers, sa>>


\* --------------------------------------------------- notifications, model
\* lines 79-82: the finally block of runStealthAction ends the run. The
\* locals of the invocation are gone; what the run did stays on record.
Finish(r, threw) ==
    [NoRun EXCEPT !.pc = "done", !.threw = threw,
                  !.forceEditor = r.forceEditor,
                  !.keystrokes = r.keystrokes,
                  !.modelCalls = r.modelCalls,
                  !.pastes = r.pastes,
                  !.result = r.result,
                  !.toast = r.toast,
                  !.editAction = r.editAction,
                  !.unlinkFailed = r.unlinkFailed]

\* lines 208-223: the "No text selected" toast settles
NoSelToastDone(k) ==
    /\ runs[k].pc = "noSelToast"
    /\ \E ok \in BOOLEAN :
         runs' = [runs EXCEPT ![k] =
                    IF ok
                       THEN Finish([@ EXCEPT !.toast = "noSelection",
                                             !.editAction = TRUE], FALSE)
                       ELSE Finish(@, TRUE)]
         /\ isRunning' = GateExit(isRunning, ~ok)
    /\ UNCHANGED <<lastRunTime, now, clipboard, tempFiles, triggers, sa>>

\* line 234
BuildPrompt(cfg, text) == cfg.prompt \o <<"\n", "\n">> \o text

\* lines 227-236: the processing toast settles, AI.ask is called
ProcToastDone(k) ==
    /\ runs[k].pc = "procToast"
    /\ \E ok \in BOOLEAN :
         IF ok
            THEN /\ runs' = [runs EXCEPT ![k] =
                               [@ EXCEPT !.toast = "animated",
                                         !.prompt = BuildPrompt(runs[k].config,
                                                                runs[k].selectedText),
                                         !.modelCalls = @ + 1,
                                         !.pc = "aiAsk"]]
                 /\ isRunning' = isRunning
            ELSE /\ runs' = [runs EXCEPT ![k] = Finish(@, TRUE)]
                 /\ isRunning' = GateExit(isRunning, TRUE)
    /\ UNCHANGED <<lastRunTime, now, clipboard, tempFiles, triggers, sa>>

Failed_Retry(r, msg) == [r EXCEPT !.pc = "procToast"]

\* lines 274-279: the catch block restyles the toast; it sets no
\* primaryAction
Failed(r, msg) ==
    Finish([r EXCEPT !.toast = "failed"], FALSE)

\* line 239: if (!result)
IsEmptyResponse(kind, txt) == kind = "null" \/ txt = <<>>

CleanResult_Verbatim(txt) == txt

\* line 241: cleanResult = result.trim()
CleanResult(txt) == Trim(txt)

\* line 248: raycast-ai-${Date.now()}.txt. Two runs never reach line 248 in
\* the same millisecond (the later one starts after the earlier one ended
\* and waits 200 ms first), so the number of the run stands for the name.
TempFile(k) == k

FilesAfter_NoFinally(files, tempFile, copyOk, pasteOk, unlinkOk) ==
    IF copyOk /\ pasteOk /\ unlinkOk THEN files \ {tempFile} ELSE files \cup {tempFile}

\* lines 263-269: the finally block unlinks the temp file and ignores a
\* failure of the unlink
FilesAfter(files, tempFile, copyOk, pasteOk, unlinkOk) ==
    IF unlinkOk THEN files \ {tempFile} ELSE files \cup {tempFile}

\* lines 236-279: AI.ask settles; result check, temp file, pbcopy, paste,
\* unlink, final toast state; then the finally block.
AIDone(k) ==
    /\ runs[k].pc = "aiAsk"
    /\ \E kind \in {"reject", "null", "text"}, txt \in ResultTexts,
          fileOk \in BOOLEAN, copyOk \in BOOLEAN, pasteOk \in BOOLEAN,
          unlinkOk \in BOOLEAN :
         LET r0 == [runs[k] EXCEPT !.result = [kind |-> kind, txt |-> txt]]
             cleanResult == CleanResult(txt)
             tempFile == TempFile(k)
             left == FilesAfter(tempFiles, tempFile, copyOk, pasteOk, unlinkOk)
             r1 == [r0 EXCEPT !.unlinkFailed = ~unlinkOk]
         IN IF kind = "reject"
               THEN /\ txt = <<>> /\ fileOk /\ copyOk /\ pasteOk /\ unlinkOk
                    /\ runs' = [runs EXCEPT ![k] = Failed(r0, "AI error")]
                    /\ UNCHANGED <<clipboard, tempFiles>>
            ELSE IF IsEmptyResponse(kind, txt)
               THEN /\ txt = <<>> /\ fileOk /\ copyOk /\ pasteOk /\ unlinkOk
                    /\ runs' = [runs EXCEPT ![k] = Failed(r0, "Empty AI response")]
                    /\ UNCHANGED <<clipboard, tempFiles>>
            ELSE IF ~fileOk
               THEN /\ copyOk /\ pasteOk /\ unlinkOk
                    /\ runs' = [runs EXCEPT ![k] = Failed(r0, "write failed")]
                    /\ UNCHANGED <<clipboard, tempFiles>>
            ELSE IF ~copyOk
               THEN /\ pasteOk
                    /\ runs' = [runs EXCEPT ![k] = Failed(r1, "pbcopy failed")]
                    /\ tempFiles' = left
                    /\ UNCHANGED clipboard
            ELSE IF ~pasteOk
               THEN /\ runs' = [runs EXCEPT ![k] = Failed(r1, "paste failed")]
                    /\ clipboard' = cleanResult
                    /\ tempFiles' = left
            ELSE /\ runs' = [runs EXCEPT ![k] =
                               Finish([r1 EXCEPT !.toast = "success",
                                                 !.pastes = @ + 1], FALSE)]
                 /\ clipboard' = cleanResult
                 /\ tempFiles' = left
    /\ isRunning' = GateExit(isRunning, FALSE)
    /\ UNCHANGED <<lastRunTime, now, triggers, sa>>

Next ==
    \/ Tick
    \/ Trigger
    \/ \E k \in RunIds : ConfigLoaded(k)
    \/ \E k \in RunIds : SettleRead1(k)
    \/ \E k \in RunIds : SettleRead2(k)
    \/ \E k \in RunIds : NoSelToastDone(k)
    \/ \E k \in RunIds : ProcToastDone(k)
    \/ \E k \in RunIds : AIDone(k)

Spec == Init /\ [][Next]_vars

\* the continuation of run k that is due runs
RunStep(k) ==
    \/ ConfigLoaded(k) \/ SettleRead1(k) \/ SettleRead2(k)
    \/ NoSelToastDone(k) \/ ProcToastDone(k) \/ AIDone(k)

\* The runs the fair specification follows: action-1 without a title
\* preference, and a model that answers "r" or nothing. Every operation of
\* a run still succeeds or fails as in Spec.
FairInputs ==
    \A k \in RunIds :
       /\ runs[k].actionId # "action-9"
       /\ runs[k].config.title # <<"PrefT">>
       /\ runs[k].result.txt \in {<<>>, <<"r">>}

FairNext ==
    \/ Tick
    \/ Trigger /\ FairInputs'
    \/ \E k \in RunIds : ConfigLoaded(k) /\ FairInputs'
    \/ \E k \in RunIds : SettleRead1(k)
    \/ \E k \in RunIds : SettleRead2(k)
    \/ \E k \in RunIds : NoSelToastDone(k)
    \/ \E k \in RunIds : ProcToastDone(k)
    \/ \E k \in RunIds : AIDone(k) /\ FairInputs'

\* Every awaited operation settles, and the event loop then runs the
\* continuation that waits for it. (At most one run has a continuation.)
FairSpec ==
    Init /\ [][FairNext]_vars /\ WF_vars(\E k \in RunIds : RunStep(k) /\ FairInputs')


\* ------------------------------------------------- SmartAction component
\* What getPreferenceValues can return: each field set or left empty.
AllPrefs == [title : {<<>>, <<"PrefT">>}, prompt : {<<>>, <<"PrefP">>}]

\* What one entry of the saved map can hold (handleSave writes both fields;
\* the spread of line 91 takes whichever fields are there).
OverrideRecords ==
    { [title |-> <<"SavedT">>],
      [prompt |-> <<"SavedP">>],
      [title |-> <<"SavedT">>, prompt |-> <<"SavedP">>],
      [title |-> <<"SavedT">>, prompt |-> <<>>] }

\* The "action-configs" item as the component can find it.
AllStorage ==
    { [kind |-> "absent", map |-> <<>>], [kind |-> "corrupt", map |-> <<>>] }
    \cup { [kind |-> "map", map |-> [a \in {id} |-> o]] :
              id \in ActionIds, o \in OverrideRecords }
    \cup { [kind |-> "map",
            map |-> [a \in ActionIds |->
                       IF a = "action-1"
                          THEN [prompt |-> <<"SavedP">>]
                          ELSE [title |-> <<"OtherT">>, prompt |-> <<"OtherP">>]]] }

\* lines 65-85: the component is mounted; useState initial values, and
\* init() has run up to the await of LocalStorage.getItem
Mount(a, f, prefs, storage) ==
    [NoComponent EXCEPT !.pc = "loadConfig", !.actionId = a, !.forceEditor = f,
                        !.prefs = prefs, !.storage = storage,
                        !.showEditor = f, !.isLoading = TRUE]

InitSmart ==
    /\ isRunning = FALSE
    /\ lastRunTime = 0
    /\ now = EpochStart
    /\ clipboard = UserClipboard
    /\ tempFiles = {}
    /\ nTriggers = 0
    /\ lastTrigger = [at |-> 0, admitted |-> FALSE]
    /\ lastAdmitAt = 0
    /\ runs = [k \in RunIds |-> NoRun]
    /\ \E a \in ActionIds, f \in BOOLEAN, prefs \in AllPrefs, storage \in AllStorage :
          sa = Mount(a, f, prefs, storage)

\* lines 87-109: LocalStorage.getItem settles; merge, setConfig, then the
\* editor for a forced launch, or the call of getSelectedText
SAConfigLoaded ==
    /\ sa.pc = "loadConfig"
    /\ \E readOk \in BOOLEAN :
         LET cfg == MergeSaved(BaseConfig(sa.prefs, sa.actionId), sa.storage,
                               sa.actionId, readOk)
             c1 == [sa EXCEPT !.loadFailed = ~readOk,
                              !.configSet = TRUE, !.config = cfg]
         IN sa' = IF sa.forceEditor
                     THEN [c1 EXCEPT !.showEditor = TRUE, !.isLoading = FALSE,
                                     !.pc = "editor"]
                     ELSE [c1 EXCEPT !.pc = "getSel"]
    /\ UNCHANGED pipeline

\* line 110
HasSelection(text) == text # <<>> /\ Len(Trim(text)) > 0

\* line 117: the catch block is entered, closeMainWindow is awaited
OnNoSelection(c) == [c EXCEPT !.pc = "noSelClose"]

\* lines 109-119, 143-144: getSelectedText settles; it rejects when nothing
\* is selected in the frontmost application
SASelectionSettled ==
    /\ sa.pc = "getSel"
    /\ \E rejected \in BOOLEAN, text \in Texts :
         IF rejected
            THEN /\ text = <<>>
                 /\ sa' = OnNoSelection([sa EXCEPT !.selection = "rejected"])
            ELSE IF HasSelection(text)
               THEN sa' = [sa EXCEPT !.selection = "text", !.selectedText = text,
                                     !.pc = "closeWin"]
               ELSE sa' = [sa EXCEPT !.selection = "blank", !.showEditor = TRUE,
                                     !.isLoading = FALSE, !.pc = "editor"]
    /\ UNCHANGED pipeline

\* lines 112-114 and 119-120: closeMainWindow settles. A rejection inside
\* the try block lands in the catch block of line 117; a rejection inside
\* the catch block rejects init().
SAWindowClosed ==
    /\ sa.pc \in {"closeWin", "noSelClose"}
    /\ \E ok \in BOOLEAN :
         sa' = IF sa.pc = "closeWin"
                  THEN IF ok THEN [sa EXCEPT !.windowClosed = TRUE, !.pc = "procToast"]
                             ELSE [sa EXCEPT !.pc = "noSelClose"]
                  ELSE IF ok THEN [sa EXCEPT !.windowClosed = TRUE, !.pc = "noSelToast"]
                             ELSE [sa EXCEPT !.threw = TRUE, !.pc = "done"]
    /\ UNCHANGED pipeline

\* lines 120-139: the "No text selected" toast settles
SANoSelToastDone ==
    /\ sa.pc = "noSelToast"
    /\ \E ok \in BOOLEAN :
         sa' = IF ok THEN [sa EXCEPT !.toast = "noSelection", !.editAction = TRUE,
                                     !.poppedToRoot = TRUE, !.pc = "done"]
                     ELSE [sa EXCEPT !.threw = TRUE, !.pc = "done"]
    /\ UNCHANGED pipeline

\* lines 155-175: the processing toast of runAI settles, AI.ask is called.
\* runAI awaits showToast outside its try block, so a rejection reaches
\* the catch block of line 117.
SAProcToastDone ==
    /\ sa.pc = "procToast"
    /\ \E ok \in BOOLEAN :
         sa' = IF ok
                  THEN [sa EXCEPT !.toast = "animated", !.editAction = TRUE,
                                  !.prompt = BuildPrompt(sa.config, sa.selectedText),
                                  !.aiCalls = @ + 1, !.pc = "aiAsk"]
                  ELSE [sa EXCEPT !.pc = "noSelClose"]
    /\ UNCHANGED pipeline

\* lines 182-198: the catch block of runAI
SAFailed(c) == [c EXCEPT !.toast = "failed", !.editAction = TRUE, !.pc = "done"]

\* lines 175-178: AI.ask settles; Clipboard.paste(result) is called
SAAIDone ==
    /\ sa.pc = "aiAsk"
    /\ \E kind \in {"reject", "null", "text"}, txt \in ResultTexts :
         LET c0 == [sa EXCEPT !.result = [kind |-> kind, txt |-> txt]]
         IN IF kind \in {"reject", "null"}
               THEN txt = <<>> /\ sa' = SAFailed(c0)
               ELSE IF txt = <<>>
                  THEN sa' = SAFailed(c0)
                  ELSE sa' = [c0 EXCEPT !.pc = "paste"]
    /\ UNCHANGED pipeline

\* lines 178-181: Clipboard.paste settles
SAPasteDone ==
    /\ sa.pc = "paste"
    /\ \E ok \in BOOLEAN :
         sa' = IF ok
                  THEN [sa EXCEPT !.pastes = @ + 1, !.pasted = sa.result.txt,
                                  !.toast = "success", !.poppedToRoot = TRUE,
                                  !.pc = "done"]
                  ELSE SAFailed(sa)
    /\ UNCHANGED pipeline

NextSmart ==
    \/ SAConfigLoaded
    \/ SASelectionSettled
    \/ SAWindowClosed
    \/ SANoSelToastDone
    \/ SAProcToastDone
    \/ SAAIDone
    \/ SAPasteDone

SmartSpec == InitSmart /\ [][NextSmart]_vars


\* ------------------------------------------------------------ properties
Active(k) == runs[k].pc \notin {"none", "done"}

NoneActive == \A k \in RunIds : ~Active(k)

\* this step is a trigger of runStealthAction
TriggerStep == nTriggers' = nTriggers + 1

Blank(text) == Trim(text) = <<>>

\* C1: at most one invocation is between isRunning = true and the finally
\* block, whenever the triggers arrive.
C1_AtMostOneActive == Cardinality({k \in RunIds : Active(k)}) <= 1

\* a trigger arrived after the debounce window while an earlier run was
\* still suspended, and was turned away by the lock
C1_Witness ==
    /\ \E k \in RunIds : Active(k) /\ k < nTriggers
    /\ ~lastTrigger.admitted
    /\ lastTrigger.at - lastAdmitAt >= DEBOUNCE_MS

\* C2 as stated: of two consecutive triggers less than 3000 ms apart, the
\* second is a no-op, whatever happened to the first.
C2_SecondOfPairIsNoOp ==
    [][TriggerStep /\ nTriggers > 0 /\ now - lastTrigger.at < DEBOUNCE_MS
         => ~lastTrigger'.admitted]_vars

\* C2 amended: a trigger fired less than 3000 ms after an admitted trigger is
\* a no-op, so of two triggers less than 3000 ms apart at most one is
\* admitted. (lastAdmitAt is the latest admitted trigger, so the window of
\* any earlier admitted trigger lies within its window.)
C2_NoOpAfterAdmitted ==
    [][TriggerStep /\ now - lastAdmitAt < DEBOUNCE_MS
         => /\ ~lastTrigger'.admitted
            /\ UNCHANGED <<runs, isRunning, lastRunTime, clipboard, tempFiles>>]_vars

\* the first run is over, and a trigger inside its window was turned away
\* by the debounce test alone
C2_Witness ==
    /\ nTriggers >= 2
    /\ ~lastTrigger.admitted
    /\ NoneActive
    /\ lastTrigger.at > lastAdmitAt
    /\ lastTrigger.at - lastAdmitAt < DEBOUNCE_MS

\* C3: isRunning is false before the first run and whenever every admitted
\* run has terminated, whichever way it terminated.
C3_GateReleased == NoneActive => ~isRunning

\* a run ended by an exception thrown out of runStealthActionInternal
C3_Witness ==
    \E k \in RunIds : runs[k].pc = "done" /\ runs[k].threw /\ NoneActive

\* C4: a trigger the gate rejects changes nothing: lock, timestamp,
\* clipboard, files, and every run's record (keystrokes, model calls,
\* notifications, pending work) stay as they were.
C4_RejectedTriggerIsNoOp ==
    [][TriggerStep /\ ~lastTrigger'.admitted
         => UNCHANGED <<isRunning, lastRunTime, now, clipboard, tempFiles, runs>>]_vars

\* a trigger was rejected while a run has already simulated keystrokes
C4_Witness ==
    /\ nTriggers >= 2
    /\ ~lastTrigger.admitted
    /\ \E k \in RunIds : Active(k) /\ runs[k].keystrokes > 0

\* C5: a trigger is admitted iff no run is active and at least 3000 ms have
\* passed since the latest admitted trigger; lastRunTime is always the time
\* of the latest admitted trigger; an admission sets the lock and the
\* timestamp and leaves the run at its first await with nothing else done.
C5_DebounceFromStart ==
    /\ [](lastRunTime = lastAdmitAt)
    /\ [][TriggerStep =>
            /\ lastTrigger'.admitted <=>
                  (NoneActive /\ now - lastAdmitAt >= DEBOUNCE_MS)
            /\ lastTrigger'.admitted =>
                  /\ isRunning' /\ lastRunTime' = now
                  /\ UNCHANGED <<clipboard, tempFiles>>
                  /\ runs'[nTriggers'].pc = "loadConfig"
                  /\ runs'[nTriggers'].keystrokes = 0
                  /\ \A j \in RunIds \ {nTriggers'} : runs'[j] = runs[j]]_vars

\* a second run is admitted, after an earlier one ended and a trigger in
\* between was rejected
C5_Witness ==
    /\ nTriggers >= 3
    /\ lastTrigger.admitted
    /\ runs[nTriggers].pc = "loadConfig"
    /\ \E j \in RunIds : j < nTriggers - 1 /\ runs[j].pc = "done"
    /\ runs[nTriggers - 1].pc = "none"


\* run k reads the clipboard (pbpaste, line 150 or 175) in this step
ReadStep(k) == runs'[k].reads = runs[k].reads + 1

\* C6: the line fallback is attempted at most once in a run, only after a
\* first read equal to the marker, and a run whose first read equalled the
\* marker has attempted it exactly once when it goes on to line 202.
C6_FallbackExactlyOnce ==
    \A k \in RunIds :
        /\ runs[k].fallbackAttempts <= 1
        /\ runs[k].fallbackAttempts = 1 => runs[k].sawMarker /\ ~runs[k].forceEditor
        /\ runs[k].sawMarker /\ runs[k].pc \in {"settle2", "noSelToast", "procToast", "aiAsk"}
              => runs[k].fallbackAttempts = 1

\* the fallback ran, the second read found no usable text, and the run is
\* about to report that nothing is selected
C6_Witness ==
    \E k \in RunIds :
        /\ runs[k].pc = "noSelToast"
        /\ runs[k].fallbackAttempts = 1
        /\ runs[k].reads = 2

\* C7 as stated: a clipboard read that differs from the marker and is not
\* empty, blanks included, is taken as the selection and goes to the model
\* step unchanged.
C7_NonEmptyIsCaptured ==
    [][\A k \in RunIds :
          ReadStep(k) /\ clipboard # runs[k].marker /\ clipboard # <<>>
             => /\ runs'[k].pc = "procToast"
                /\ runs'[k].hasRealSelection
                /\ runs'[k].selectedText = clipboard]_vars

\* C7 amended: a clipboard read that differs from the marker and holds a
\* character that is not whitespace is taken as the selection and goes to the
\* model step unchanged, its leading and trailing whitespace included; the
\* prompt sent to the model ends with exactly that text.
C7_NonBlankIsCapturedVerbatim ==
    /\ [][\A k \in RunIds :
             ReadStep(k) /\ clipboard # runs[k].marker /\ ~Blank(clipboard)
                => /\ runs'[k].pc = "procToast"
                   /\ runs'[k].hasRealSelection
                   /\ runs'[k].selectedText = clipboard]_vars
    /\ [](\A k \in RunIds :
             runs[k].pc = "aiAsk" =>
                LET n == Len(runs[k].prompt)
                    m == Len(runs[k].selectedText)
                IN /\ n = Len(runs[k].config.prompt) + 2 + m
                   /\ SubSeq(runs[k].prompt, n - m + 1, n) = runs[k].selectedText
                   /\ SubSeq(runs[k].prompt, 1, n - m - 2) = runs[k].config.prompt)

\* text with blanks at both ends was captured and is on its way to the model
C7_Witness ==
    \E k \in RunIds :
        /\ runs[k].pc = "aiAsk"
        /\ runs[k].selectedText = <<" ", "a", " ">>
        /\ runs[k].modelCalls = 1

\* C8: a failed clipboard write, clipboard read or simulated keystroke of
\* selection acquisition leaves the run without a selection: no model call,
\* no paste.
C8_FailureMeansNotAcquired ==
    \A k \in RunIds :
        runs[k].failedOps # {} =>
            /\ ~runs[k].hasRealSelection
            /\ runs[k].pc \notin {"procToast", "aiAsk"}
            /\ runs[k].modelCalls = 0
            /\ runs[k].pastes = 0

\* the second read of run k (line 175) happens in this step
SecondReadStep(k) == ReadStep(k) /\ runs[k].pc = "settle2"

C10_ForcedRunTouchesNothing ==
    [][\A k \in RunIds :
          runs[k].forceEditor /\ Active(k) /\ runs'[k] # runs[k]
             => /\ clipboard' = clipboard
                /\ runs'[k].keystrokes = 0
                /\ runs'[k].pc \in {"noSelToast", "done"}
                /\ runs'[k].modelCalls = 0
                /\ runs'[k].pastes = 0]_vars

\* the AI.ask call of run k settles in this step, and the run ends
ModelStep(k) == runs[k].pc = "aiAsk" /\ runs'[k].pc = "done"

\* C11: a model result that is null, empty, or whitespace only ends the run
\* in the failure state, and nothing is written to the clipboard, to a temp
\* file, or pasted.
C11_BlankResultFails ==
    [][\A k \in RunIds :
         /\ ModelStep(k)
         /\ runs'[k].result.kind \in {"null", "text"}
         /\ Blank(runs'[k].result.txt)
         => /\ runs'[k].toast = "failed"
            /\ runs'[k].pastes = 0
            /\ UNCHANGED <<clipboard, tempFiles>>]_vars

\* C12 as stated: after a successful run the clipboard holds, and the paste
\* keystroke pasted, the model's returned text verbatim.
C12_PastedVerbatim ==
    [][\A k \in RunIds :
         ModelStep(k) /\ runs'[k].pastes = 1
         => clipboard' = runs'[k].result.txt]_vars

\* C12 amended: after a successful run the clipboard holds, and the paste
\* keystroke pasted, the model's returned text with its leading and trailing
\* whitespace removed; the run reports success.
C12_PastedTrimmed ==
    [][\A k \in RunIds :
         ModelStep(k) /\ runs'[k].pastes = 1
         => /\ clipboard' = Trim(runs'[k].result.txt)
            /\ runs'[k].toast = "success"]_vars

\* a run pasted a result that ended in a newline, without the newline
C12_Witness ==
    \E k \in RunIds :
       /\ runs[k].pc = "done" /\ runs[k].pastes = 1
       /\ runs[k].result.txt = <<"r", "\n">>
       /\ clipboard = <<"r">>

C14_MarkerNeverExposed ==
    [][\A k \in RunIds :
         /\ Active(k) /\ runs'[k].pc = "done" => clipboard' # runs[k].marker
         /\ runs[k].pc = "procToast" /\ runs'[k].pc = "aiAsk"
              => runs[k].selectedText # runs[k].marker]_vars

\* C15: a failure notification always carries the Edit Prompt action, the
\* one for a failed model call as the one for a missing selection.
C15_FailureOffersEdit ==
    \A k \in RunIds :
       runs[k].pc = "done" /\ runs[k].toast \in {"noSelection", "failed"}
       => runs[k].editAction

\* the value the three layers give field f of action a: the field of the
\* persisted override stored under a, else the non-empty preference, else
\* the built-in default, else the identifier (title) or nothing (prompt)
Layered(f, a, prefs, st) ==
    IF st.kind = "map" /\ a \in DOMAIN st.map /\ f \in DOMAIN st.map[a]
       THEN st.map[a][f]
    ELSE IF prefs[f] # <<>> THEN prefs[f]
    ELSE IF a \in DOMAIN DEFAULT_CONFIGS THEN DEFAULT_CONFIGS[a][f]
    ELSE IF f = "title" THEN <<a>> ELSE <<>>

NoRecord == [kind |-> "absent", map |-> <<>>]

\* C16: the resolved configuration layers defaults, preferences and the
\* persisted override of this action field by field; an override stored
\* under another identifier changes nothing.
C16_ResolvedByLayers ==
    sa.configSet /\ ~sa.loadFailed
    => \A f \in {"title", "prompt"} :
          sa.config[f] = Layered(f, sa.actionId, sa.prefs, sa.storage)

\* an override holding only a title was merged over a prompt preference,
\* beside an action whose only override sits under the other identifier
C16_Witness ==
    /\ sa.configSet /\ ~sa.loadFailed
    /\ sa.storage.kind = "map" /\ sa.actionId \in DOMAIN sa.storage.map
    /\ DOMAIN sa.storage.map[sa.actionId] = {"title"}
    /\ sa.config = [title |-> <<"SavedT">>, prompt |-> <<"PrefP">>]

\* C17: when the persisted record cannot be read or parsed, the launch goes
\* on without a notification, with the configuration that defaults and
\* preferences alone give, as if there were no record.
C17_UnreadableIsAbsent ==
    [][/\ sa.pc = "loadConfig" /\ sa'.pc # "loadConfig"
       /\ sa'.loadFailed \/ sa.storage.kind = "corrupt"
       => /\ sa'.configSet
          /\ \A f \in {"title", "prompt"} :
                sa'.config[f] = Layered(f, sa.actionId, sa.prefs, NoRecord)
          /\ sa'.toast = "none" /\ ~sa'.threw
          /\ sa'.pc = IF sa.forceEditor THEN "editor" ELSE "getSel"]_vars

\* an unparseable record was met with a preference set, and the launch went
\* on to ask for the selection
C17_Witness ==
    /\ sa.pc = "getSel" /\ sa.storage.kind = "corrupt" /\ ~sa.loadFailed
    /\ sa.prefs.title # <<>>
    /\ sa.config.title = sa.prefs.title

\* C18: an unforced launch that obtains no selected text, because
\* getSelectedText returned blank text or rejected, ends with the editor
\* shown, the resolved configuration loaded, and no model call.
C18_NoSelectionOpensEditor ==
    /\ sa.pc \in {"editor", "done"}
    /\ ~sa.forceEditor
    /\ sa.selection \in {"blank", "rejected"}
    => sa.showEditor /\ sa.configSet /\ sa.aiCalls = 0

\* C19: when every awaited operation settles, every admitted run ends with
\* the lock released; a trigger that then arrives outside the debounce
\* window is admitted, and a run starts only when no other run holds the
\* lock.
C19_RunsEndAndRelease ==
    /\ (isRunning \/ ~NoneActive) ~> (~isRunning /\ NoneActive)
    /\ [][TriggerStep
            => /\ NoneActive /\ now - lastAdmitAt >= DEBOUNCE_MS
                  => lastTrigger'.admitted
               /\ lastTrigger'.admitted => NoneActive /\ ~isRunning]_vars

\* a run that threw has ended, and a later trigger started the next run
C19_Witness ==
    \E j, k \in RunIds :
       /\ j < k
       /\ runs[j].pc = "done" /\ runs[j].threw
       /\ Active(k) /\ isRunning

\* C20: a run calls the model at most once, after it acquired a selection,
\* and pastes at most once, after the model returned a text and that text
\* was copied to the clipboard.
C20_OneCallThenOnePaste ==
    [][\A k \in RunIds :
         /\ runs'[k].modelCalls # runs[k].modelCalls
              => /\ runs[k].modelCalls = 0 /\ runs'[k].modelCalls = 1
                 /\ runs[k].hasRealSelection /\ runs[k].keystrokes > 0
                 /\ runs[k].pastes = 0
         /\ runs'[k].pastes # runs[k].pastes
              => /\ runs[k].pastes = 0 /\ runs'[k].pastes = 1
                 /\ runs[k].pc = "aiAsk" /\ runs[k].modelCalls = 1
                 /\ runs'[k].result.kind = "text"
                 /\ clipboard' = Trim(runs'[k].result.txt)]_vars

\* a run copied with one keystroke, asked the model once and pasted once
C20_Witness ==
    \E k \in RunIds :
       /\ runs[k].pc = "done" /\ runs[k].toast = "success"
       /\ runs[k].keystrokes = 1 /\ runs[k].modelCalls = 1 /\ runs[k].pastes = 1

\* C21: a run that has written the marker or sent a keystroke ends in
\* completion or in a failure that was caught and reported; no exception
\* reaches the caller of runStealthAction, not even when showing the
\* no-selection or the in-progress notification fails.
C21_NoExceptionEscapes ==
    \A k \in RunIds : runs[k].pc = "done" => ~runs[k].threw

====
